---- MODULE Spec2Model ----
(***************************************************************************)
(* Payment-gated interview generation: the job lifecycle controller of    *)
(* InterviewTable (two useSWR hooks: start-interviews and status polling), *)
(* the shared ApplicationState of AppProvider, the ErrorBoundary that      *)
(* tears the table down and remounts it, and the checkout route.           *)
(*                                                                         *)
(* The hooks are modelled with the revalidation rules of SWR 2 under       *)
(* React 18+: a request for a key is deduplicated while an entry for the   *)
(* key is in FETCH (in flight, and for dedupingInterval after a success),  *)
(* a hook revalidates on mount, on focus/reconnect unless switched off, on *)
(* its refreshInterval timer, and after an error (shouldRetryOnError is    *)
(* left at its default), and the onSuccess/onError callbacks of the hook   *)
(* that started a request run when the hook's key is still the request's   *)
(* key, whether or not the component is still mounted.                     *)
(***************************************************************************)
EXTENDS Integers, Sequences, FiniteSets, TLC

\* ---------------------------------------------------------------- bounds
NumTokens == 1        \* distinct payment-return tokens
MaxStartCalls == 3    \* start-job requests issued in one behaviour
MaxStatusCalls == 3   \* status requests issued in one behaviour
MaxMounts == 2        \* InterviewTable instances mounted per page load
MaxLoads == 2         \* page loads in one behaviour
MaxCount == 52        \* largest interviews count a checkout request carries
MaxCheckouts == 1     \* checkout requests in one behaviour
MaxRecords == 2       \* longest record list an export request carries
MaxExports == 1       \* export calls in one behaviour
MaxSlider == 25       \* largest position asked of the slider
MaxName == 1          \* longest role or industry validated
MaxText == 4          \* longest range text validated

\* ------------------------------------------------------------- constants
NoToken == 0          \* no session_id in the URL / no sessionId prop
NULL == 0             \* useState<string | null>(null)
JOB_STATUS_POLLING_INTERVAL == 15000

Tokens == 1..NumTokens
Jobs == 1..MaxStartCalls
Instances == 1..MaxMounts

Absent == "<absent>"                  \* a field the body does not carry
ServerMsg == "quota exceeded"         \* a message the server provides
TransportMsg == "Failed to fetch"     \* message of fetch()'s rejection
ParseMsg == "Unexpected token"        \* message of response.json()'s rejection
StartFallback == "Failed to start interview generation"
StatusFallback == "An unexpected error occurred"

TOAST_MESSAGES ==
  [SUCCESS_TITLE |-> "Success!",
   SUCCESS_DESCRIPTION |-> "Your interviews have been generated.",
   ERROR_TITLE |-> "Error"]

defaultInterviews == <<"d1">>
DataValues == {<<>>, <<"i1", "i2">>, <<"i2">>}

\* JavaScript truthiness of an optional string: undefined and "" are falsy
Falsy(m) == m \in {Absent, ""}

\* ------------------------------------------------- what the network gives
StartResponses ==
       {[net |-> "fail",  parses |-> FALSE, msg |-> Absent, hasJobId |-> FALSE]}
  \cup {[net |-> "notok", parses |-> FALSE, msg |-> Absent, hasJobId |-> FALSE]}
  \cup {[net |-> "notok", parses |-> TRUE,  msg |-> m, hasJobId |-> FALSE] :
           m \in {Absent, "", ServerMsg}}
  \cup {[net |-> "ok",    parses |-> FALSE, msg |-> Absent, hasJobId |-> FALSE]}
  \cup {[net |-> "ok",    parses |-> TRUE,  msg |-> Absent, hasJobId |-> b] :
           b \in BOOLEAN}

StatusResponses ==
       {[net |-> "fail",  parses |-> FALSE, status |-> "none", msg |-> Absent,
         hasData |-> FALSE, data |-> <<>>]}
  \cup {[net |-> n, parses |-> FALSE, status |-> "none", msg |-> Absent,
         hasData |-> FALSE, data |-> <<>>] : n \in {"notok", "ok"}}
  \cup {[net |-> "notok", parses |-> TRUE, status |-> "none", msg |-> m,
         hasData |-> FALSE, data |-> <<>>] : m \in {Absent, "", ServerMsg}}
  \cup {[net |-> "ok", parses |-> TRUE, status |-> "pending", msg |-> Absent,
         hasData |-> FALSE, data |-> <<>>]}
  \cup {[net |-> "ok", parses |-> TRUE, status |-> "completed", msg |-> Absent,
         hasData |-> TRUE, data |-> d] : d \in DataValues}
  \cup {[net |-> "ok", parses |-> TRUE, status |-> "completed", msg |-> Absent,
         hasData |-> FALSE, data |-> <<>>]}
  \cup {[net |-> "ok", parses |-> TRUE, status |-> "failed", msg |-> m,
         hasData |-> FALSE, data |-> <<>>] : m \in {Absent, ServerMsg}}

\* startInterviews: what the promise settles to for a network outcome
startInterviews(resp) ==
  IF resp.net = "fail"
  THEN [threw |-> TRUE, message |-> TransportMsg, hasJobId |-> FALSE]
  ELSE IF ~resp.parses
  THEN [threw |-> TRUE, message |-> ParseMsg, hasJobId |-> FALSE]
  ELSE IF resp.net = "notok"
  THEN [threw |-> TRUE,
        message |-> IF Falsy(resp.msg) THEN StartFallback ELSE resp.msg,
        hasJobId |-> FALSE]
  ELSE [threw |-> FALSE, message |-> Absent, hasJobId |-> resp.hasJobId]

fetchStatus_Mut(resp) ==
  IF resp.net = "fail"
  THEN [threw |-> TRUE, message |-> TransportMsg, status |-> "none",
        error |-> Absent, hasData |-> FALSE, data |-> <<>>]
  ELSE IF ~resp.parses
  THEN [threw |-> TRUE, message |-> ParseMsg, status |-> "none",
        error |-> Absent, hasData |-> FALSE, data |-> <<>>]
  ELSE IF resp.net = "notok"
  THEN [threw |-> TRUE, message |-> StatusFallback,
        status |-> "none", error |-> Absent, hasData |-> FALSE, data |-> <<>>]
  ELSE [threw |-> FALSE, message |-> Absent, status |-> resp.status,
        error |-> resp.msg, hasData |-> resp.hasData, data |-> resp.data]

\* fetchStatus: what the promise settles to for a network outcome
fetchStatus(resp) ==
  IF resp.net = "fail"
  THEN [threw |-> TRUE, message |-> TransportMsg, status |-> "none",
        error |-> Absent, hasData |-> FALSE, data |-> <<>>]
  ELSE IF ~resp.parses
  THEN [threw |-> TRUE, message |-> ParseMsg, status |-> "none",
        error |-> Absent, hasData |-> FALSE, data |-> <<>>]
  ELSE IF resp.net = "notok"
  THEN [threw |-> TRUE,
        message |-> IF Falsy(resp.msg) THEN StatusFallback ELSE resp.msg,
        status |-> "none", error |-> Absent, hasData |-> FALSE, data |-> <<>>]
  ELSE [threw |-> FALSE, message |-> Absent, status |-> resp.status,
        error |-> resp.msg, hasData |-> resp.hasData, data |-> resp.data]


\* ------------------------------------------------------------------ state
VARIABLES
  nodeEnv,       \* process.env.NODE_ENV of the build
  urlToken,      \* session_id in the address bar (NoToken when absent)
  sessionId,     \* Home's sessionId, the prop InterviewTable is rendered with
  hydrated,      \* the page's client components have mounted
  hasError,      \* ErrorBoundary.state.hasError
  inst,          \* the InterviewTable instance of this page (0: none yet)
  jobId,         \* InterviewTable's jobId state (NULL when not mounted)
  keyRef,        \* per instance: the status hook's current key (a job or NULL)
  pollArmed,     \* the status hook's refreshInterval timer is armed
  interviewing,  \* AppProvider state
  interviews,    \* AppProvider state
  toasts,        \* notifications emitted on this page, in order
  FETCH,         \* SWR: keys with an ongoing or just-finished request
  inflight,      \* requests sent and not yet answered
  cacheError,    \* SWR cache: jobs whose status key holds an error
  retryTimers,   \* SWR: keys with an armed error-retry timeout
  startCalls,    \* per token: start-job requests issued so far
  startSerial,   \* start-job requests issued so far, over all tokens
  statusCalls,   \* status requests issued so far
  loads,         \* page loads so far
  step,          \* history: the last step taken and what it handled
  ended,         \* history: start calls (= jobs) whose lifecycle has seen a
                 \*   terminal status or an error
  startFailed,   \* history: tokens for which a start-job call has failed
  pageBase,      \* history: startSerial when this page was loaded
  stripeEnv,     \* checkout route: which environment variables are set
  ckRequest,     \* checkout route: the request handled last
  ckResponse,    \* checkout route: the response to it
  sessions,      \* payment sessions created at the payment provider
  exports,       \* export calls sent and not yet settled
  exCalls,       \* export calls made so far
  urls,          \* object URLs created on this page, in order
  sliderValue,   \* InterviewForm state
  ckPending,     \* the handleCheckout call in progress and where it waits
  away,          \* the page has left for the payment page
  formData,      \* validation: the argument of validateInterviewForm
  validation     \* validation: what the call returned

vars == <<nodeEnv, urlToken, sessionId, hydrated, hasError, inst, jobId, keyRef,
          pollArmed, interviewing, interviews, toasts, FETCH, inflight,
          cacheError, retryTimers, startCalls, startSerial, statusCalls, loads,
          step, ended, startFailed, pageBase,
          stripeEnv, ckRequest, ckResponse, sessions,
          exports, exCalls, urls, sliderValue, ckPending, away,
          formData, validation>>

ckVars == <<stripeEnv, ckRequest, ckResponse, sessions>>

formVars == <<exports, exCalls, urls, sliderValue, ckPending, away>>

valVars == <<formData, validation>>

jobVars == <<nodeEnv, urlToken, sessionId, hydrated, hasError, inst, jobId,
             keyRef, pollArmed, interviewing, interviews, toasts, FETCH,
             inflight, cacheError, retryTimers, startCalls, startSerial,
             statusCalls, loads, step, ended, startFailed, pageBase>>

\* what a step of the form or of a menu leaves alone of the above
jobFrame == <<nodeEnv, urlToken, sessionId, hydrated, hasError, inst, jobId,
              keyRef, pollArmed, interviewing, interviews, FETCH, inflight,
              cacheError, retryTimers, startCalls, startSerial, statusCalls,
              loads, ended, startFailed, pageBase>>

\* InterviewTable is in the tree: Home renders it for a truthy sessionId and
\* the ErrorBoundary renders its children only while it holds no error
Mounted == hydrated /\ sessionId # NoToken /\ ~hasError

StartKey(t) == <<"start-interviews", t>>
StatusKey(j) == <<"interview-status", j>>

\* The record of a step: the action, the instance and job it concerns, what
\* the handled call settled to, and the network outcome it was given.
Settled(name, i, j, outcome, message, resp, hasData, data) ==
  [name |-> name, inst |-> i, job |-> j, outcome |-> outcome,
   message |-> message, net |-> resp.net, parses |-> resp.parses,
   bodyMsg |-> resp.msg, hasData |-> hasData, data |-> data]

Step(name, i, j, outcome, message) ==
  Settled(name, i, j, outcome, message,
          [net |-> "none", parses |-> FALSE, msg |-> Absent], FALSE, <<>>)

ErrorToast(description) ==
  [title |-> TOAST_MESSAGES.ERROR_TITLE, description |-> description]

SuccessToast ==
  [title |-> TOAST_MESSAGES.SUCCESS_TITLE,
   description |-> TOAST_MESSAGES.SUCCESS_DESCRIPTION]

RevalidateStart_Mut(i, t, F, Q, ing, ivs, url) ==
  IF StartKey(t) \in F
  THEN [F |-> F, Q |-> Q, interviewing |-> ing, interviews |-> ivs,
        url |-> url, issued |-> FALSE]
  ELSE IF nodeEnv = "development"
  THEN [F |-> F \cup {StartKey(t)}, Q |-> Q, interviewing |-> ing,
        interviews |-> defaultInterviews, url |-> NoToken, issued |-> FALSE]
  ELSE [F |-> F \cup {StartKey(t)},
        Q |-> Q \cup {[hook |-> "start", arg |-> t, inst |-> i,
                       id |-> startSerial + 1]},
        interviewing |-> TRUE, interviews |-> ivs, url |-> url,
        issued |-> TRUE]

\* A revalidation of the start hook of instance i for token t, deduplicated:
\* with no entry for the key in F the fetcher runs (it strips session_id from
\* the URL, then either installs the default interviews in development or
\* sets interviewing and sends the start-job request); otherwise the call
\* joins the ongoing request.  F, Q, ing, ivs, url: the state it runs in.
RevalidateStart(i, t, F, Q, ing, ivs, url) ==
  IF StartKey(t) \in F
  THEN [F |-> F, Q |-> Q, interviewing |-> ing, interviews |-> ivs,
        url |-> url, issued |-> FALSE]
  ELSE IF nodeEnv = "development"
  THEN [F |-> F \cup {StartKey(t)}, Q |-> Q, interviewing |-> ing,
        interviews |-> defaultInterviews, url |-> NoToken, issued |-> FALSE]
  ELSE [F |-> F \cup {StartKey(t)},
        Q |-> Q \cup {[hook |-> "start", arg |-> t, inst |-> i,
                       id |-> startSerial + 1]},
        interviewing |-> TRUE, interviews |-> ivs, url |-> NoToken,
        issued |-> TRUE]

RevalidateStatus_Mut(i, j, F, Q) ==
  [F |-> F \cup {StatusKey(j)},
   Q |-> Q \cup {[hook |-> "status", arg |-> j, inst |-> i,
                  id |-> statusCalls + 1]},
   issued |-> TRUE]

\* A revalidation of the status hook of instance i for job j, deduplicated.
RevalidateStatus(i, j, F, Q) ==
  IF StatusKey(j) \in F
  THEN [F |-> F, Q |-> Q, issued |-> FALSE]
  ELSE [F |-> F \cup {StatusKey(j)},
        Q |-> Q \cup {[hook |-> "status", arg |-> j, inst |-> i,
                       id |-> statusCalls + 1]},
        issued |-> TRUE]

CountStart(n, t) ==
  /\ n.issued => startSerial < MaxStartCalls
  /\ startSerial' = IF n.issued THEN startSerial + 1 ELSE startSerial
  /\ startCalls' = IF n.issued THEN [startCalls EXCEPT ![t] = @ + 1]
                   ELSE startCalls

CountStatus(n) ==
  /\ n.issued => statusCalls < MaxStatusCalls
  /\ statusCalls' = IF n.issued THEN statusCalls + 1 ELSE statusCalls

\* -------------------------------------------------------------- page load
\* A full page load with session_id = t in the URL (t = NoToken: none): the
\* tab's memory starts over, and nothing from the previous page runs again.
PageLoad(t, name) ==
  /\ loads < MaxLoads
  /\ loads' = loads + 1
  /\ urlToken' = t
  /\ sessionId' = t
  /\ hydrated' = FALSE
  /\ hasError' = FALSE
  /\ inst' = 0
  /\ jobId' = NULL
  /\ keyRef' = [i \in Instances |-> NULL]
  /\ pollArmed' = FALSE
  /\ interviewing' = FALSE
  /\ interviews' = <<>>
  /\ toasts' = <<>>
  /\ FETCH' = {}
  /\ inflight' = {}
  /\ cacheError' = {}
  /\ retryTimers' = {}
  /\ step' = Step(name, 0, NULL, "none", Absent)
  /\ pageBase' = startSerial
  /\ UNCHANGED <<nodeEnv, ended, startFailed, startCalls, startSerial,
                 statusCalls>>

\* The user arrives at the page: from the payment redirect, a bookmark or the
\* history (success_url carries the token, cancel_url carries none).
Navigate(t) == PageLoad(t, "Navigate")

\* ErrorBoundary's "Reload Page" button
handleReload ==
  /\ hydrated /\ hasError
  /\ PageLoad(urlToken, "handleReload")

\* The client components mount; with a sessionId Home mounts InterviewTable,
\* whose start hook revalidates on mount and whose status hook has no key.
Hydrate ==
  /\ ~hydrated
  /\ hydrated' = TRUE
  /\ IF sessionId = NoToken
     THEN /\ step' = Step("Hydrate", 0, NULL, "none", Absent)
          /\ UNCHANGED <<inst, pollArmed, FETCH, inflight, interviewing,
                         interviews, urlToken, startCalls, startSerial>>
     ELSE LET n == RevalidateStart(1, sessionId, FETCH, inflight,
                                   interviewing, interviews, urlToken)
          IN /\ inst' = 1
             /\ pollArmed' = TRUE
             /\ FETCH' = n.F
             /\ inflight' = n.Q
             /\ interviewing' = n.interviewing
             /\ interviews' = n.interviews
             /\ urlToken' = n.url
             /\ CountStart(n, sessionId)
             /\ step' = Step("Hydrate", 1, NULL,
                             IF n.issued THEN "start-issued" ELSE "none",
                             Absent)
  /\ UNCHANGED <<nodeEnv, ended, startFailed, pageBase, sessionId, hasError,
                 jobId, keyRef, toasts,
                 cacheError, retryTimers, statusCalls, loads>>

\* ---------------------------------------------------------- ErrorBoundary
\* A child throws while rendering: the boundary shows its fallback, so
\* InterviewTable unmounts (its state is dropped, the status hook's effect
\* cleanup clears the poll timer; requests already sent stay in flight).
getDerivedStateFromError ==
  /\ hydrated /\ ~hasError
  /\ hasError' = TRUE
  /\ jobId' = NULL
  /\ pollArmed' = FALSE
  /\ step' = Step("getDerivedStateFromError", inst, NULL, "none", Absent)
  /\ UNCHANGED <<nodeEnv, ended, startFailed, pageBase, urlToken, sessionId,
                 hydrated, inst, keyRef,
                 interviewing, interviews, toasts, FETCH, inflight, cacheError,
                 retryTimers, startCalls, startSerial, statusCalls, loads>>

\* "Try Again": the boundary renders its children again, so a new
\* InterviewTable instance mounts with the same sessionId prop.
handleRetry ==
  /\ hydrated /\ hasError
  /\ hasError' = FALSE
  /\ IF sessionId = NoToken
     THEN /\ step' = Step("handleRetry", 0, NULL, "none", Absent)
          /\ UNCHANGED <<inst, pollArmed, FETCH, inflight, interviewing,
                         interviews, urlToken, startCalls, startSerial>>
     ELSE LET n == RevalidateStart(inst + 1, sessionId, FETCH, inflight,
                                   interviewing, interviews, urlToken)
          IN /\ inst < MaxMounts
             /\ inst' = inst + 1
             /\ pollArmed' = TRUE
             /\ FETCH' = n.F
             /\ inflight' = n.Q
             /\ interviewing' = n.interviewing
             /\ interviews' = n.interviews
             /\ urlToken' = n.url
             /\ CountStart(n, sessionId)
             /\ step' = Step("handleRetry", inst + 1, NULL,
                             IF n.issued THEN "start-issued" ELSE "none",
                             Absent)
  /\ UNCHANGED <<nodeEnv, ended, startFailed, pageBase, sessionId, hydrated,
                 jobId, keyRef, toasts,
                 cacheError, retryTimers, statusCalls, loads>>


\* ------------------------------------------------------- hook callbacks
CompletedInterviews_Mut(res) == IF res.hasData THEN interviews ELSE <<>>

\* onSuccess, completed branch: setInterviews(data.data || [])
CompletedInterviews(res) == IF res.hasData THEN res.data ELSE <<>>

FailedToast_Mut(res) == ErrorToast(res.message)

\* onSuccess, failed branch: the toast's description is data.error
FailedToast(res) == ErrorToast(res.error)

\* onError of either hook: the toast's description is error.message
OnErrorToast(res) == ErrorToast(res.message)

ClearsJobId_Mut(res) == res.threw \/ res.status = "completed"

\* the status hook calls setJobId(null) in onError and in the completed
\* and failed branches of onSuccess
ClearsJobId(res) == res.threw \/ res.status \in {"completed", "failed"}

callbackSafeguard_Mut(r) == TRUE

\* callbackSafeguard of the request's hook: key === keyRef.current
callbackSafeguard(r) == keyRef[r.inst] = r.arg

\* ------------------------------------------------------------ start hook
\* The start-job request r is answered.  On a rejection SWR drops the FETCH
\* entry, runs the hook's onError and arms the error retry.  On a result the
\* fetcher's continuation stores the job id with setJobId; in a mounted
\* instance that changes the status hook's key, which revalidates at once.
StartSettles(r, resp) ==
  LET res == startInterviews(resp)
      live == Mounted /\ inst = r.inst
      j == IF res.hasJobId THEN r.id ELSE NULL
      n == IF ~res.threw /\ live /\ j # NULL
           THEN RevalidateStatus(inst, j, FETCH, inflight \ {r})
           ELSE [F |-> FETCH, Q |-> inflight \ {r}, issued |-> FALSE]
  IN /\ r \in inflight /\ r.hook = "start"
     /\ IF res.threw
        THEN /\ FETCH' = FETCH \ {StartKey(r.arg)}
             /\ inflight' = inflight \ {r}
             /\ interviewing' = FALSE
             /\ toasts' = Append(toasts, OnErrorToast(res))
             /\ retryTimers' = retryTimers \cup {StartKey(r.arg)}
             /\ step' = Settled("StartSettles", r.inst, NULL, "threw",
                                res.message, resp, FALSE, <<>>)
             /\ UNCHANGED <<jobId, keyRef, pollArmed, statusCalls>>
        ELSE /\ FETCH' = n.F
             /\ inflight' = n.Q
             /\ CountStatus(n)
             /\ jobId' = IF live THEN j ELSE jobId
             /\ keyRef' = IF live THEN [keyRef EXCEPT ![inst] = j] ELSE keyRef
             /\ pollArmed' = IF live THEN TRUE ELSE pollArmed
             /\ step' = Settled("StartSettles", r.inst, j, "returned", Absent,
                                resp, FALSE, <<>>)
             /\ UNCHANGED <<interviewing, toasts, retryTimers>>
     /\ ended' = IF res.threw THEN ended \cup {r.id} ELSE ended
     /\ startFailed' = IF res.threw THEN startFailed \cup {r.arg}
                       ELSE startFailed
     /\ UNCHANGED <<nodeEnv, pageBase, urlToken, sessionId, hydrated,
                    hasError, inst,
                    interviews, cacheError, startCalls, startSerial, loads>>

\* ----------------------------------------------------------- status hook
\* The status request r is answered.  callbackSafeguard: the callbacks of
\* the hook that started r run when that hook's key is still r's key.
StatusSettles(r, resp) ==
  LET res == fetchStatus(resp)
      live == Mounted /\ inst = r.inst
      safeguard == callbackSafeguard(r)
      terminal == res.threw \/ res.status \in {"completed", "failed"}
      clears == safeguard /\ ClearsJobId(res) /\ live
  IN /\ r \in inflight /\ r.hook = "status"
     /\ inflight' = inflight \ {r}
     /\ FETCH' = IF res.threw THEN FETCH \ {StatusKey(r.arg)} ELSE FETCH
     /\ cacheError' = IF res.threw THEN cacheError \cup {r.arg}
                      ELSE cacheError \ {r.arg}
     /\ jobId' = IF clears THEN NULL ELSE jobId
     /\ keyRef' = IF clears THEN [keyRef EXCEPT ![inst] = NULL] ELSE keyRef
     /\ pollArmed' = IF Mounted /\ (inst = r.inst \/ jobId = r.arg) THEN TRUE
                     ELSE pollArmed
     /\ IF ~safeguard
        THEN /\ step' = Settled("StatusSettles", r.inst, r.arg, "discarded",
                                Absent, resp, FALSE, <<>>)
             /\ UNCHANGED <<interviewing, interviews, toasts, retryTimers>>
        ELSE IF res.threw
        THEN /\ interviewing' = FALSE
             /\ toasts' = Append(toasts, OnErrorToast(res))
             /\ retryTimers' = retryTimers \cup {StatusKey(r.arg)}
             /\ step' = Settled("StatusSettles", r.inst, r.arg, "threw",
                                res.message, resp, FALSE, <<>>)
             /\ UNCHANGED interviews
        ELSE IF res.status = "completed"
        THEN /\ interviews' = CompletedInterviews(res)
             /\ interviewing' = FALSE
             /\ toasts' = Append(toasts, SuccessToast)
             /\ step' = Settled("StatusSettles", r.inst, r.arg, "completed",
                                Absent, resp, res.hasData, res.data)
             /\ UNCHANGED retryTimers
        ELSE IF res.status = "failed"
        THEN /\ interviewing' = FALSE
             /\ toasts' = Append(toasts, FailedToast(res))
             /\ step' = Settled("StatusSettles", r.inst, r.arg, "failed",
                                res.error, resp, FALSE, <<>>)
             /\ UNCHANGED <<interviews, retryTimers>>
        ELSE /\ step' = Settled("StatusSettles", r.inst, r.arg, "pending",
                                Absent, resp, FALSE, <<>>)
             /\ UNCHANGED <<interviewing, interviews, toasts, retryTimers>>
     /\ ended' = IF safeguard /\ terminal THEN ended \cup {r.arg} ELSE ended
     /\ UNCHANGED <<nodeEnv, startFailed, pageBase, urlToken, sessionId,
                    hydrated, hasError, inst,
                    startCalls, startSerial, statusCalls, loads>>

\* A revalidation of the mounted status hook triggered by the event `name`.
StatusRevalidation(name) ==
  LET n == RevalidateStatus(inst, jobId, FETCH, inflight)
  IN /\ Mounted /\ jobId # NULL
     /\ n.issued
     /\ FETCH' = n.F
     /\ inflight' = n.Q
     /\ CountStatus(n)
     /\ step' = Step(name, inst, jobId, "status-issued", Absent)

\* The refreshInterval timer fires JOB_STATUS_POLLING_INTERVAL ms after it
\* was armed: unless the cache holds an error for the key the hook
\* revalidates (deduplicated), and the timer is armed again only once that
\* revalidation has finished.
PollTick ==
  /\ Mounted /\ pollArmed /\ jobId # NULL
  /\ jobId \notin cacheError
  /\ \/ /\ StatusRevalidation("PollTick")
     \/ /\ \E r \in inflight : r.hook = "status" /\ r.arg = jobId
        /\ step' = Step("PollTick", inst, jobId, "joined", Absent)
        /\ UNCHANGED <<FETCH, inflight, statusCalls>>
  /\ pollArmed' = FALSE
  /\ UNCHANGED <<nodeEnv, ended, startFailed, pageBase, urlToken, sessionId,
                 hydrated, hasError, inst, jobId,
                 keyRef, interviewing, interviews, toasts, cacheError,
                 retryTimers, startCalls, startSerial, loads>>

\* The window regains focus: the start hook has revalidateOnFocus: false, the
\* status hook leaves SWR's default (true) and revalidates, deduplicated.
Focus ==
  /\ StatusRevalidation("Focus")
  /\ UNCHANGED <<nodeEnv, ended, startFailed, pageBase, urlToken, sessionId,
                 hydrated, hasError, inst, jobId,
                 keyRef, pollArmed, interviewing, interviews, toasts,
                 cacheError, retryTimers, startCalls, startSerial, loads>>

\* The network comes back: as for focus (revalidateOnReconnect).
Reconnect ==
  /\ StatusRevalidation("Reconnect")
  /\ UNCHANGED <<nodeEnv, ended, startFailed, pageBase, urlToken, sessionId,
                 hydrated, hasError, inst, jobId,
                 keyRef, pollArmed, interviewing, interviews, toasts,
                 cacheError, retryTimers, startCalls, startSerial, loads>>

\* ----------------------------------------------------------- SWR timers
\* An error-retry timeout fires: the hook subscribed to the key, if any,
\* revalidates (deduplicated).  Neither hook sets shouldRetryOnError.
ErrorRetry(key) ==
  /\ key \in retryTimers
  /\ retryTimers' = retryTimers \ {key}
  /\ IF Mounted /\ key = StartKey(sessionId)
     THEN LET n == RevalidateStart(inst, sessionId, FETCH, inflight,
                                   interviewing, interviews, urlToken)
          IN /\ FETCH' = n.F
             /\ inflight' = n.Q
             /\ interviewing' = n.interviewing
             /\ interviews' = n.interviews
             /\ urlToken' = n.url
             /\ CountStart(n, sessionId)
             /\ step' = Step("ErrorRetry", inst, NULL,
                             IF n.issued THEN "start-issued" ELSE "none",
                             Absent)
             /\ UNCHANGED statusCalls
     ELSE IF Mounted /\ jobId # NULL /\ key = StatusKey(jobId)
     THEN LET n == RevalidateStatus(inst, jobId, FETCH, inflight)
          IN /\ FETCH' = n.F
             /\ inflight' = n.Q
             /\ CountStatus(n)
             /\ step' = Step("ErrorRetry", inst, jobId,
                             IF n.issued THEN "status-issued" ELSE "none",
                             Absent)
             /\ UNCHANGED <<interviewing, interviews, urlToken, startCalls,
                            startSerial>>
     ELSE /\ step' = Step("ErrorRetry", 0, NULL, "none", Absent)
          /\ UNCHANGED <<FETCH, inflight, interviewing, interviews, urlToken,
                         startCalls, startSerial, statusCalls>>
  /\ UNCHANGED <<nodeEnv, ended, startFailed, pageBase, sessionId, hydrated,
                 hasError, inst, jobId, keyRef,
                 pollArmed, toasts, cacheError, loads>>

\* dedupingInterval after a request finished, its FETCH entry is dropped.
DedupeExpire(key) ==
  /\ key \in FETCH
  /\ ~\E r \in inflight :
        key = (IF r.hook = "start" THEN StartKey(r.arg) ELSE StatusKey(r.arg))
  /\ FETCH' = FETCH \ {key}
  /\ step' = Step("DedupeExpire", 0, NULL, "none", Absent)
  /\ UNCHANGED <<nodeEnv, ended, startFailed, pageBase, urlToken, sessionId,
                 hydrated, hasError, inst, jobId,
                 keyRef, pollArmed, interviewing, interviews, toasts, inflight,
                 cacheError, retryTimers, startCalls, startSerial, statusCalls,
                 loads>>

\* --------------------------------------------------------- checkout route
MIN_INTERVIEW_COUNT == 5
MAX_INTERVIEW_COUNT == 20

ReturnUrl == "https://app.example"

\* bodies a client can POST: interviews is a number or missing, returnUrl is
\* a string or missing, and the body may fail to parse as JSON
CheckoutRequests ==
  [parses : BOOLEAN, hasInterviews : BOOLEAN, interviews : -1..MaxCount,
   hasReturnUrl : BOOLEAN]

NoRequest ==
  [parses |-> FALSE, hasInterviews |-> FALSE, interviews |-> 0,
   hasReturnUrl |-> FALSE]

NoResponse == [status |-> 0, error |-> Absent, quantity |-> 0]

ErrorResponse(message) == [status |-> 500, error |-> message, quantity |-> 0]

\* const interviewCount = interviews || 5  (undefined and 0 are falsy)
interviewCount(req) ==
  IF ~req.hasInterviews \/ req.interviews = 0 THEN 5 ELSE req.interviews

\* the route's check of the count: it throws outside 1..50
CountRejected(n) == n < 1 \/ n > 50

\* success_url: `${returnUrl}?session_id={CHECKOUT_SESSION_ID}`; the provider
\* puts the session's id in the place of the last element's placeholder
success_url(returnUrl) == <<returnUrl, "?session_id=">>

cancel_url_Mut(returnUrl) == <<returnUrl, "?session_id=">>

\* cancel_url: `${returnUrl}`
cancel_url(returnUrl) == <<returnUrl>>

\* POST /api/checkout: every throw inside the try block ends in the catch,
\* which answers 500 {error: message}; otherwise one payment session is
\* created and returned.  stripeOk: the provider accepts the create call.
POST(req, stripeOk) ==
  LET n == interviewCount(req)
      failure ==
        IF ~stripeEnv.secretKey THEN "Stripe secret key is not configured"
        ELSE IF ~stripeEnv.price THEN "Stripe price ID is not configured"
        ELSE IF ~req.parses THEN ParseMsg
        ELSE IF ~req.hasReturnUrl THEN "Return URL is required"
        ELSE IF CountRejected(n) THEN "Interview count must be between 1 and 50"
        ELSE IF ~stripeOk THEN "stripe error"
        ELSE Absent
  IN /\ Len(sessions) < MaxCheckouts
     /\ ckRequest' = req
     /\ IF failure # Absent
        THEN /\ ckResponse' = ErrorResponse(failure)
             /\ sessions' = sessions
        ELSE /\ ckResponse' = [status |-> 200, error |-> Absent, quantity |-> n]
             /\ sessions' = Append(sessions,
                   [quantity |-> n,
                    success_url |-> success_url(ReturnUrl),
                    cancel_url |-> cancel_url(ReturnUrl)])
     /\ UNCHANGED <<stripeEnv, valVars>>

\* ----------------------------------------------------------- export route
\* Text is a sequence of characters; the characters that matter to the JSON
\* encoding are the double quote and the backslash.
DQ == "\""
BS == "\\"
Texts == {<<>>, <<"P", DQ>>, <<BS>>}

\* Interview records, reduced to two of their seven text fields
Fields == {"role", "question_one"}
Records == [role : Texts, question_one : Texts]

KeyText(f) == IF f = "role" THEN <<"r", "o", "l", "e">> ELSE <<"q", "1">>

RECURSIVE ListsUpTo(_)
ListsUpTo(n) ==
  IF n = 0 THEN {<<>>}
  ELSE LET shorter == ListsUpTo(n - 1)
       IN shorter \cup {Append(l, r) : l \in {s \in shorter : Len(s) = n - 1},
                                       r \in Records}

RecordLists == ListsUpTo(MaxRecords)

\* the records the page holds for the interviews of ApplicationState
Row(x) ==
  IF x = "i1" THEN [role |-> <<"P", DQ>>, question_one |-> <<BS>>]
  ELSE IF x = "i2" THEN [role |-> <<BS>>, question_one |-> <<>>]
  ELSE [role |-> <<"P", DQ>>, question_one |-> <<"P", DQ>>]

Rows(ivs) == [k \in 1..Len(ivs) |-> Row(ivs[k])]

\* --- JSON.stringify of a list of records
RECURSIVE Escape(_)
Escape_Mut(s) == s

Escape(s) ==
  IF s = <<>> THEN <<>>
  ELSE (IF Head(s) \in {DQ, BS} THEN <<BS, Head(s)>> ELSE <<Head(s)>>)
       \o Escape(Tail(s))

JSONString(s) == <<DQ>> \o Escape(s) \o <<DQ>>

JSONRecord(r) ==
  <<"{">> \o JSONString(KeyText("role")) \o <<":">> \o JSONString(r.role)
  \o <<",">> \o JSONString(KeyText("question_one")) \o <<":">>
  \o JSONString(r.question_one) \o <<"}">>

RECURSIVE JSONItems(_)
JSONItems(l) ==
  IF l = <<>> THEN <<>>
  ELSE JSONRecord(Head(l))
       \o (IF Tail(l) = <<>> THEN <<>> ELSE <<",">> \o JSONItems(Tail(l)))

JSONstringify(l) == <<"[">> \o JSONItems(l) \o <<"]">>

\* --- JSON.parse of such a text: each parser returns what it read and the
\* rest of the text, or ok = FALSE
Failed(t) == [ok |-> FALSE, value |-> <<>>, rest |-> t]

RECURSIVE ScanString(_, _)
ScanString(t, acc) ==
  IF t = <<>> THEN Failed(t)
  ELSE IF Head(t) = DQ THEN [ok |-> TRUE, value |-> acc, rest |-> Tail(t)]
  ELSE IF Head(t) = BS
  THEN IF Len(t) < 2 THEN Failed(t)
       ELSE ScanString(Tail(Tail(t)), Append(acc, t[2]))
  ELSE ScanString(Tail(t), Append(acc, Head(t)))

ParseString(t) ==
  IF t = <<>> \/ Head(t) # DQ THEN Failed(t) ELSE ScanString(Tail(t), <<>>)

Expect(t, c) == t # <<>> /\ Head(t) = c

\* one "key": "value" member
ParseMember(t) ==
  LET k == ParseString(t)
  IN IF ~k.ok \/ ~Expect(k.rest, ":") THEN Failed(t)
     ELSE LET v == ParseString(Tail(k.rest))
          IN IF ~v.ok THEN Failed(t)
             ELSE [ok |-> TRUE, value |-> <<k.value, v.value>>, rest |-> v.rest]

ParseRecord(t) ==
  IF ~Expect(t, "{") THEN Failed(t)
  ELSE LET m1 == ParseMember(Tail(t))
       IN IF ~m1.ok \/ ~Expect(m1.rest, ",") THEN Failed(t)
          ELSE LET m2 == ParseMember(Tail(m1.rest))
               IN IF ~m2.ok \/ ~Expect(m2.rest, "}") THEN Failed(t)
                  ELSE IF \/ m1.value[1] # KeyText("role")
                          \/ m2.value[1] # KeyText("question_one")
                  THEN Failed(t)
                  ELSE [ok |-> TRUE,
                        value |-> [role |-> m1.value[2],
                                   question_one |-> m2.value[2]],
                        rest |-> Tail(m2.rest)]

RECURSIVE ParseItems(_, _)
ParseItems(t, acc) ==
  LET r == ParseRecord(t)
  IN IF ~r.ok THEN Failed(t)
     ELSE IF Expect(r.rest, ",")
     THEN ParseItems(Tail(r.rest), Append(acc, r.value))
     ELSE IF Expect(r.rest, "]")
     THEN [ok |-> TRUE, value |-> Append(acc, r.value), rest |-> Tail(r.rest)]
     ELSE Failed(t)

JSONparse(t) ==
  IF ~Expect(t, "[") THEN Failed(t)
  ELSE IF Expect(Tail(t), "]")
  THEN [ok |-> Len(t) = 2, value |-> <<>>, rest |-> Tail(Tail(t))]
  ELSE LET l == ParseItems(Tail(t), <<>>)
       IN IF l.ok /\ l.rest = <<>> THEN l ELSE Failed(t)

\* --- the route POST /api/tables/[table]?format=
EXPORT_FORMATS == {"csv", "txt", "xlsx", "json", "html"}

CONTENT_TYPES ==
  [csv |-> "text/csv", txt |-> "text/plain",
   xlsx |-> "application/vnd.ms-excel", json |-> "application/json",
   html |-> "text/html"]

VALID_TABLES == {"interviews"}

\* values of the format query parameter: searchParams.get gives null when the
\* parameter is missing (Absent) and "" for "?format="
FormatParams == {Absent, ""} \cup EXPORT_FORMATS \cup {"pdf", "CSV"}
TableNames == {"interviews", "users"}

\* What request.json() gives.  kind: the body does not parse, or is null, a
\* number/string/boolean, an array or an object; field: the object's
\* interviews property (absent, a falsy scalar, a truthy scalar, an object or
\* an array); items: the array's elements.
Body(kind, field, items) == [kind |-> kind, field |-> field, items |-> items]

ExportBody(items) == Body("object", "list", items)

Bodies ==
       {Body(k, "absent", <<>>) : k \in {"unparseable", "null", "scalar"}}
  \cup {Body("list", "absent", l) : l \in {<<>>, Rows(<<"i1">>)}}
  \cup {Body("object", f, <<>>) : f \in {"absent", "falsy", "scalar", "object"}}
  \cup {ExportBody(l) : l \in RecordLists}

validateTableName(table) ==
  IF table = "" THEN "Table name is required"
  ELSE IF table \notin VALID_TABLES THEN "Table not found"
  ELSE Absent

validateFormat_Mut(format) ==
  [error |-> IF Falsy(format) \/ format \in EXPORT_FORMATS THEN Absent
             ELSE "Unsupported format",
   format |-> IF Falsy(format) THEN "csv" ELSE format]

\* validateFormat: the format to render, or the error it throws
validateFormat(format) ==
  [error |-> IF Falsy(format) \/ format \in EXPORT_FORMATS THEN Absent
             ELSE "Unsupported format",
   format |-> IF Falsy(format) THEN "html" ELSE format]

validateRequestBody_Mut(body) ==
  IF body.kind \in {"null", "scalar"} THEN "Request body is required"
  ELSE IF body.kind = "list" \/ body.field \in {"absent", "falsy"}
  THEN "No interview data provided"
  ELSE IF body.field # "list" THEN "Interview data must be an array"
  ELSE Absent

\* validateRequestBody: the error it throws, Absent when it returns the list
validateRequestBody(body) ==
  IF body.kind \in {"null", "scalar"} THEN "Request body is required"
  ELSE IF body.kind = "list" \/ body.field \in {"absent", "falsy"}
  THEN "No interview data provided"
  ELSE IF body.field # "list" THEN "Interview data must be an array"
  ELSE IF Len(body.items) = 0
  THEN "At least one interview is required for export"
  ELSE Absent

\* a Content-Disposition header, as tokens
Attachment(name) == <<"attachment; ", "filename=", DQ, name, DQ>>

Disposition_Mut(format) ==
  IF format \in {"csv", "txt", "xlsx", "json"}
  THEN [has |-> TRUE, value |-> Attachment("Interviews." \o format)]
  ELSE [has |-> FALSE, value |-> <<>>]

\* the Content-Disposition header the route sets for a format
Disposition(format) ==
  IF format \in {"csv", "txt", "xlsx"}
  THEN [has |-> TRUE, value |-> Attachment("Interviews." \o format)]
  ELSE [has |-> FALSE, value |-> <<>>]

NoExportResponse ==
  [by |-> "none", status |-> 0, contentType |-> Absent,
   hasDisposition |-> FALSE, disposition |-> <<>>, error |-> Absent,
   encoding |-> Absent, rows |-> <<>>, text |-> <<>>]

ExportError(status, message) ==
  [by |-> "route", status |-> status, contentType |-> "application/json",
   hasDisposition |-> FALSE, disposition |-> <<>>, error |-> message,
   encoding |-> Absent, rows |-> <<>>, text |-> <<>>]

\* POST of the tables route for a request [table, format, body]: the first
\* throw inside the try block ends in the catch, which answers 400 {error};
\* otherwise the list is rendered in the format (the XLSX encoders are
\* opaque: the payload is the encoding's name and the rows it was given,
\* except for JSON, whose text is Response.json's).
TablesPOST(req) ==
  LET tableError == validateTableName(req.table)
      f == validateFormat(req.format)
      bodyError == validateRequestBody(req.body)
      d == Disposition(f.format)
  IN IF tableError # Absent THEN ExportError(400, tableError)
     ELSE IF f.error # Absent THEN ExportError(400, f.error)
     ELSE IF req.body.kind = "unparseable" THEN ExportError(400, ParseMsg)
     ELSE IF bodyError # Absent THEN ExportError(400, bodyError)
     ELSE [by |-> "route", status |-> 200,
           contentType |-> CONTENT_TYPES[f.format],
           hasDisposition |-> d.has, disposition |-> d.value,
           error |-> Absent,
           encoding |-> f.format,
           rows |-> IF f.format = "json" THEN <<>> ELSE req.body.items,
           text |-> IF f.format = "json" THEN JSONstringify(req.body.items)
                    ELSE <<>>]

\* ------------------------------------------------ export transport (client)
\* the entries of the Download and context menus: format of the path, newTab
EXPORT_MENU ==
  {[format |-> "txt", newTab |-> FALSE], [format |-> "csv", newTab |-> FALSE],
   [format |-> "xlsx", newTab |-> FALSE], [format |-> "json", newTab |-> TRUE],
   [format |-> "html", newTab |-> TRUE]}

\* answers of a boundary other than the tables route of this repository
OtherHeaders ==
  {<<>>, <<"attachment; ">>, <<"filename=", "x.csv">>, <<"filename=", DQ, DQ>>,
   Attachment("report.csv"),
   <<"filename=", DQ, "a", DQ, "; x=", DQ, "b", DQ>>}

OtherResponses ==
       {[by |-> "other", status |-> 200, contentType |-> "text/plain",
         hasDisposition |-> TRUE, disposition |-> h, error |-> Absent,
         encoding |-> "bytes", rows |-> <<>>, text |-> <<>>] :
           h \in OtherHeaders}
  \cup {[by |-> "other", status |-> s, contentType |-> "text/plain",
         hasDisposition |-> FALSE, disposition |-> <<>>, error |-> Absent,
         encoding |-> IF s = 200 THEN "bytes" ELSE Absent, rows |-> <<>>,
         text |-> <<>>] : s \in {200, 404, 500}}

\* an intermediary answers in the route's place
GatewayResponse ==
  [by |-> "gateway", status |-> 502, contentType |-> "text/html",
   hasDisposition |-> FALSE, disposition |-> <<>>, error |-> Absent,
   encoding |-> Absent, rows |-> <<>>, text |-> <<>>]

\* response.ok
ResponseOk(resp) == resp.status \in 200..299

\* /filename="(.+)"/.exec(header): the pairs (i, j) at which the pattern
\* matches, filename= at token i, quotes at i + 1 and j, something between
FilenameMatches(h) ==
  {m \in (1..Len(h)) \X (1..Len(h)) :
     /\ h[m[1]] = "filename="
     /\ m[1] + 1 <= Len(h) /\ h[m[1] + 1] = DQ
     /\ m[2] >= m[1] + 3 /\ h[m[2]] = DQ}

extractFilenameFromHeader_Mut(contentDisposition, defaultFileName) ==
  defaultFileName

\* the leftmost match with the longest capture, else the default name
extractFilenameFromHeader(contentDisposition, defaultFileName) ==
  LET ms == FilenameMatches(contentDisposition)
  IN IF ms = {} THEN defaultFileName
     ELSE LET i == CHOOSE a \in {m[1] : m \in ms} :
                     \A m \in ms : a <= m[1]
              j == CHOOSE b \in {m[2] : m \in ms} :
                     \A m \in ms : m[1] = i => m[2] <= b
          IN SubSeq(contentDisposition, i + 2, j - 1)

DefaultFileName == <<"Interview">>

\* response.headers.get('Content-Disposition') || ''
HeaderOf(resp) == IF resp.hasDisposition THEN resp.disposition ELSE <<>>

makeExportRequest_Mut(resp) ==
  IF resp.by = "none"
  THEN [threw |-> TRUE, message |-> TransportMsg, filename |-> <<>>]
  ELSE [threw |-> FALSE, message |-> Absent,
        filename |-> extractFilenameFromHeader(HeaderOf(resp), DefaultFileName)]

\* makeExportRequest, from the answer on: what the promise settles to
makeExportRequest(resp) ==
  IF resp.by = "none"
  THEN [threw |-> TRUE, message |-> TransportMsg, filename |-> <<>>]
  ELSE IF ~ResponseOk(resp)
  THEN [threw |-> TRUE,
        message |-> "Export failed with status: " \o ToString(resp.status),
        filename |-> <<>>]
  ELSE [threw |-> FALSE, message |-> Absent,
        filename |-> extractFilenameFromHeader(HeaderOf(resp), DefaultFileName)]

\* handleExport of the earlier export helper, from the answer on
handleExportResult(resp, defaultFileName) ==
  IF resp.by = "none"
  THEN [threw |-> TRUE, message |-> TransportMsg, filename |-> <<>>]
  ELSE IF ~ResponseOk(resp)
  THEN [threw |-> TRUE, message |-> "Export failed", filename |-> <<>>]
  ELSE [threw |-> FALSE, message |-> Absent,
        filename |-> extractFilenameFromHeader(HeaderOf(resp), defaultFileName)]

\* ------------------------------------------------------------ file delivery
\* An object URL: who made it, how it was used (save-as click or new tab),
\* how often it has been revoked, whether it was revoked in the step that
\* used it, and whether a revoke timer is armed for it.
ObjectUrl(by, use, filename, revoked, timer) ==
  [by |-> by, use |-> use, filename |-> filename, used |-> TRUE,
   revoked |-> revoked, sameStep |-> revoked > 0, timer |-> timer]

\* downloadBlob: createObjectURL, link.click(), revokeObjectURL
downloadBlob(by, filename) == ObjectUrl(by, "download", filename, 1, FALSE)

\* openBlobInNewTab: createObjectURL, window.open, setTimeout(revoke, 1000)
openBlobInNewTab(by) == ObjectUrl(by, "tab", <<>>, 0, TRUE)

handleFileExport(by, filename, openInNewTab) ==
  IF openInNewTab THEN openBlobInNewTab(by) ELSE downloadBlob(by, filename)

\* the delivery branches of the earlier helper: the new-tab branch revokes
\* right after window.open
handleExportDelivery(by, fileName, newTab) ==
  IF newTab THEN ObjectUrl(by, "tab", <<>>, 1, FALSE)
  ELSE ObjectUrl(by, "download", fileName, 1, FALSE)

\* ------------------------------------------------------- export handlers
NoExportRequest ==
  [id |-> 0, caller |-> "none", target |-> "none", table |-> "",
   format |-> Absent, body |-> Body("null", "absent", <<>>), newTab |-> FALSE,
   defaultFileName |-> <<>>]

\* The record of a step of the form, the menus or a route.
FormStep(name, outcome, message, req, resp, filename) ==
  [name |-> name, inst |-> 0, job |-> NULL, outcome |-> outcome,
   message |-> message, net |-> "none", parses |-> FALSE, bodyMsg |-> Absent,
   hasData |-> FALSE, data |-> <<>>,
   request |-> req, response |-> resp, filename |-> filename]

ExportErrorToast(description) ==
  [title |-> "Export Error", description |-> description]

\* fetch(path, {method: 'POST', body}) is sent; the caller awaits the answer
ExportCall(caller, target, table, format, body, newTab, defaultFileName) ==
  LET r == [id |-> exCalls + 1, caller |-> caller, target |-> target,
            table |-> table, format |-> format, body |-> body,
            newTab |-> newTab, defaultFileName |-> defaultFileName]
  IN /\ exCalls < MaxExports
     /\ exCalls' = exCalls + 1
     /\ exports' = exports \cup {r}
     /\ step' = FormStep("handleExport", "export-sent", Absent, r,
                         NoExportResponse, <<>>)
     /\ UNCHANGED <<urls, sliderValue, ckPending, away, toasts>>
     /\ UNCHANGED jobFrame
     /\ UNCHANGED <<ckVars, valVars>>

\* InterviewForm.handleExport, an entry m of the Download menu (the menu's
\* button is disabled while interviewing): the generated interviews, or the
\* default examples when there are none
InterviewForm_handleExport(m) ==
  /\ hydrated /\ ~hasError /\ ~interviewing
  /\ ExportCall("form", "tables", "interviews", m.format,
                ExportBody(Rows(IF Len(interviews) = 0 THEN defaultInterviews
                                ELSE interviews)),
                m.newTab, DefaultFileName)

\* InterviewTable.handleExport, an entry m of the context menu of row k (the
\* rows are rendered unless a request of the table has failed)
InterviewTable_handleExport(m, k) ==
  /\ Mounted /\ cacheError = {} /\ k \in 1..Len(interviews)
  /\ ExportCall("table", "tables", "interviews", m.format,
                ExportBody(<<Row(interviews[k])>>), m.newTab, DefaultFileName)

\* handleExport of the earlier export helper: the body is the list itself,
\* the path is the caller's (the tables route or any other boundary)
handleExport(target, format, list, newTab) ==
  ExportCall("legacy", target, "interviews", format,
             Body("list", "absent", list), newTab, <<"Export">>)

\* any client posts a request to the tables route, which answers it
TablesRequest(req) ==
  LET r == [id |-> 0, caller |-> "client", target |-> "tables",
            table |-> req.table, format |-> req.format, body |-> req.body,
            newTab |-> FALSE, defaultFileName |-> <<>>]
  IN /\ step' = FormStep("TablesPOST", "answered", Absent, r, TablesPOST(r),
                         <<>>)
     /\ UNCHANGED <<exports, exCalls, urls, sliderValue, ckPending, away,
                    toasts>>
     /\ UNCHANGED jobFrame
     /\ UNCHANGED <<ckVars, valVars>>

\* The export call r settles: the tables route answers it (or, for another
\* path, the boundary there answers `other`), an intermediary answers in its
\* place, or fetch rejects.  The caller's continuation runs: on a failure the
\* table shows a toast, the form logs, and the earlier helper rethrows; on a
\* payload the file is delivered.
ExportSettles(r, how, other) ==
  LET resp == IF how = "failed" THEN NoExportResponse
              ELSE IF how = "gateway" THEN GatewayResponse
              ELSE IF r.target = "tables" THEN TablesPOST(r)
              ELSE other
      legacy == r.caller = "legacy"
      res == IF legacy THEN handleExportResult(resp, r.defaultFileName)
             ELSE makeExportRequest(resp)
      url == IF legacy
             THEN handleExportDelivery(r.caller, res.filename, r.newTab)
             ELSE handleFileExport(r.caller, res.filename, r.newTab)
  IN /\ r \in exports
     /\ exports' = exports \ {r}
     /\ urls' = IF res.threw THEN urls ELSE Append(urls, url)
     /\ toasts' = IF res.threw /\ r.caller = "table"
                  THEN Append(toasts, ExportErrorToast(res.message))
                  ELSE toasts
     /\ step' = FormStep("ExportSettles",
                         IF res.threw THEN "export-failed" ELSE "exported",
                         res.message, r, resp, res.filename)
     /\ UNCHANGED <<exCalls, sliderValue, ckPending, away>>
     /\ UNCHANGED jobFrame
     /\ UNCHANGED <<ckVars, valVars>>

\* the timer of openBlobInNewTab fires, 1000 ms after the tab was opened
RevokeTimer(k) ==
  /\ k \in 1..Len(urls) /\ urls[k].timer
  /\ urls' = [urls EXCEPT ![k].revoked = @ + 1, ![k].timer = FALSE]
  /\ step' = FormStep("RevokeTimer", "revoked", Absent, NoExportRequest,
                      NoExportResponse, <<>>)
  /\ UNCHANGED <<exports, exCalls, sliderValue, ckPending, away, toasts>>
  /\ UNCHANGED jobFrame
  /\ UNCHANGED <<ckVars, valVars>>

\* ------------------------------------------------------ checkout initiator
DEFAULT_INTERVIEW_COUNT == 5

NoCheckout == [phase |-> "idle", interviews |-> 0]

\* how loadStripe's promise settles: a Stripe object, null, or a rejection
StripeLoads == {"stripe", "null", "rejected"}

INTERVIEW_COUNT_STEP == 1

\* the positions a pointer or key event can ask the Slider for
SliderPositions == 0..MaxSlider

Slider_Mut(position) == position

\* the value the Slider reports for a position: snapped to its step and
\* clamped to its min and max props
Slider(position) ==
  IF position < MIN_INTERVIEW_COUNT THEN MIN_INTERVIEW_COUNT
  ELSE IF position > MAX_INTERVIEW_COUNT THEN MAX_INTERVIEW_COUNT
  ELSE position - ((position - MIN_INTERVIEW_COUNT) % INTERVIEW_COUNT_STEP)

\* the Slider's onValueChange, called when its value changes (the slider is
\* disabled while interviewing): setSliderValue(value[0])
handleSliderChange(value) ==
  /\ ~away /\ hydrated /\ ~hasError /\ ~interviewing
  /\ value # sliderValue
  /\ sliderValue' = value
  /\ step' = FormStep("handleSliderChange", "none", Absent, NoExportRequest,
                      NoExportResponse, <<>>)
  /\ UNCHANGED <<exports, exCalls, urls, ckPending, away, toasts>>
  /\ UNCHANGED jobFrame
  /\ UNCHANGED <<ckVars, valVars>>

\* handleSubmit: the form is submitted (its button is disabled while
\* interviewing) and handleCheckout runs up to `await stripePromise`, with
\* the sliderValue of this render
handleSubmit ==
  /\ ~away /\ hydrated /\ ~hasError /\ ~interviewing
  /\ ckPending = NoCheckout
  /\ ckPending' = [phase |-> "stripe", interviews |-> sliderValue]
  /\ step' = FormStep("handleSubmit", "none", Absent, NoExportRequest,
                      NoExportResponse, <<>>)
  /\ UNCHANGED <<exports, exCalls, urls, sliderValue, away, toasts>>
  /\ UNCHANGED jobFrame
  /\ UNCHANGED <<ckVars, valVars>>

CheckoutCaught_Mut(message) ==
  /\ ckPending' = NoCheckout
  /\ away' = TRUE
  /\ step' = FormStep("handleCheckout", "checkout-failed", message,
                      NoExportRequest, NoExportResponse, <<>>)

\* the catch block of handleCheckout: console.error and nothing else
CheckoutCaught(message) ==
  /\ ckPending' = NoCheckout
  /\ away' = away
  /\ step' = FormStep("handleCheckout", "checkout-failed", message,
                      NoExportRequest, NoExportResponse, <<>>)

\* handleCheckout continues after `await stripePromise`: it throws when
\* Stripe did not load or the form is no longer mounted (formRef.current is
\* null), otherwise it sends the checkout request
handleCheckout(loaded) ==
  /\ ~away /\ ckPending.phase = "stripe"
  /\ IF loaded = "rejected" THEN CheckoutCaught("Failed to load Stripe.js")
     ELSE IF loaded = "null" THEN CheckoutCaught("Stripe failed to initialize")
     ELSE IF ~(hydrated /\ ~hasError)
     THEN CheckoutCaught("Form reference not available")
     ELSE /\ ckPending' = [ckPending EXCEPT !.phase = "fetch"]
          /\ away' = away
          /\ step' = FormStep("handleCheckout", "checkout-sent", Absent,
                              NoExportRequest, NoExportResponse, <<>>)
  /\ UNCHANGED <<exports, exCalls, urls, sliderValue, toasts>>
  /\ UNCHANGED jobFrame
  /\ UNCHANGED <<ckVars, valVars>>

\* the body handleCheckout sends: interviews is the slider value, returnUrl
\* is window.location.origin
CheckoutData(n) ==
  [parses |-> TRUE, hasInterviews |-> TRUE, interviews |-> n,
   hasReturnUrl |-> TRUE]

\* The checkout request settles: fetch rejects, or the route answers (POST).
\* A non-OK answer throws; otherwise stripe.redirectToCheckout either leaves
\* for the payment page or resolves with an error, which is thrown.
CheckoutSettles(reached, stripeOk, redirects) ==
  /\ ~away /\ ckPending.phase = "fetch"
  /\ IF ~reached
     THEN /\ CheckoutCaught(TransportMsg)
          /\ UNCHANGED <<ckVars, valVars>>
     ELSE /\ POST(CheckoutData(ckPending.interviews), stripeOk)
          /\ IF ckResponse'.status # 200
             THEN CheckoutCaught("Checkout request failed with status: "
                                 \o ToString(ckResponse'.status))
             ELSE IF ~redirects THEN CheckoutCaught("redirect error")
             ELSE /\ ckPending' = NoCheckout
                  /\ away' = TRUE
                  /\ step' = FormStep("handleCheckout", "redirected", Absent,
                                      NoExportRequest, NoExportResponse, <<>>)
  /\ UNCHANGED <<exports, exCalls, urls, sliderValue, toasts>>
  /\ UNCHANGED jobFrame

\* ------------------------------------------------------- form validation
\* A string is a sequence of characters: the space stands for white space,
\* "7" for a digit, "-" for the hyphen.
Chars == {" ", "7", "-"}
Digits == {"7"}

RECURSIVE Strings(_)
Strings(n) ==
  IF n = 0 THEN {<<>>}
  ELSE LET shorter == Strings(n - 1)
       IN shorter \cup {Append(s, c) : s \in {x \in shorter : Len(x) = n - 1},
                                       c \in Chars}

\* a number of JavaScript: NaN or a value
NaN == [isNaN |-> TRUE, value |-> 0]
Number(n) == [isNaN |-> FALSE, value |-> n]

\* a < b and a > b of JavaScript for a number a and a bound b: false for NaN
LessThan(a, b) == ~a.isNaN /\ a.value < b
GreaterThan(a, b) == ~a.isNaN /\ a.value > b

\* String.prototype.trim
RECURSIVE trimStart(_)
trimStart(s) ==
  IF s # <<>> /\ Head(s) = " " THEN trimStart(Tail(s)) ELSE s

RECURSIVE trimEnd(_)
trimEnd(s) ==
  IF s # <<>> /\ s[Len(s)] = " " THEN trimEnd(SubSeq(s, 1, Len(s) - 1))
  ELSE s

trim(s) == trimEnd(trimStart(s))

\* [0-9]+
IsDigits(s) == s # <<>> /\ \A k \in 1..Len(s) : s[k] \in Digits

\* new RegExp('^[0-9]+-[0-9]+$').test(s)
EXPERIENCE_RANGE_PATTERN(s) ==
  \E k \in 1..Len(s) :
    /\ s[k] = "-"
    /\ IsDigits(SubSeq(s, 1, k - 1))
    /\ IsDigits(SubSeq(s, k + 1, Len(s)))

COMPANY_SIZE_PATTERN(s) ==
  \E k \in 1..Len(s) :
    /\ s[k] = "-"
    /\ IsDigits(SubSeq(s, 1, k - 1))
    /\ IsDigits(SubSeq(s, k + 1, Len(s)))

Valid == [isValid |-> TRUE, error |-> Absent]
Invalid(error) == [isValid |-> FALSE, error |-> error]

validateRequired(value, fieldName) ==
  IF trim(value) = <<>> THEN Invalid(fieldName \o " is required")
  ELSE Valid

\* fieldName.toLowerCase().includes('experience'), for the two field names
\* validateInterviewForm passes
IncludesExperience(fieldName) == fieldName = "Experience range"

validateRange(value, fieldName) ==
  LET trimmedValue == trim(value)
      matches == IF IncludesExperience(fieldName)
                 THEN EXPERIENCE_RANGE_PATTERN(trimmedValue)
                 ELSE COMPANY_SIZE_PATTERN(trimmedValue)
  IN IF trimmedValue = <<>> THEN Invalid(fieldName \o " is required")
     ELSE IF ~matches
     THEN Invalid(fieldName
                  \o " must be in format \"number-number\" (e.g., \"2-7\")")
     ELSE Valid

validateInterviewCount(count, min, max) ==
  IF LessThan(count, min)
  THEN Invalid("Minimum " \o ToString(min) \o " interviews required")
  ELSE IF GreaterThan(count, max)
  THEN Invalid("Maximum " \o ToString(max) \o " interviews allowed")
  ELSE Valid

\* errors: Record<string, string>, a map from the keys set so far
NoErrors == [key \in {} |-> Absent]

\* errors[key] = v.error when v is not valid
Collect(errors, key, v) ==
  IF v.isValid THEN errors
  ELSE [k \in DOMAIN errors \cup {key} |->
          IF k = key THEN v.error ELSE errors[k]]

validateInterviewForm(data) ==
  LET roleValidation == validateRequired(data.role, "Role")
      industryValidation == validateRequired(data.industry, "Industry")
      experienceValidation ==
        validateRange(data.experienceRange, "Experience range")
      employeeValidation == validateRange(data.employeeRange, "Company size")
      countValidation == validateInterviewCount(data.interviews, 5, 20)
      errors ==
        Collect(Collect(Collect(Collect(Collect(NoErrors,
          "role", roleValidation),
          "industry", industryValidation),
          "experienceRange", experienceValidation),
          "employeeRange", employeeValidation),
          "interviews", countValidation)
  IN [returned |-> TRUE,
      isValid |-> /\ roleValidation.isValid
                  /\ industryValidation.isValid
                  /\ experienceValidation.isValid
                  /\ employeeValidation.isValid
                  /\ countValidation.isValid,
      errors |-> errors]

NoValidation == [returned |-> FALSE, isValid |-> FALSE, errors |-> NoErrors]

\* the arguments the function is called with
FormInputs ==
  [role : Strings(MaxName), industry : Strings(MaxName),
   experienceRange : Strings(MaxText), employeeRange : Strings(MaxText),
   interviews : {NaN} \cup {Number(n) : n \in (MIN_INTERVIEW_COUNT - 1
                                                ..MIN_INTERVIEW_COUNT)
                                            \cup (MAX_INTERVIEW_COUNT
                                                ..MAX_INTERVIEW_COUNT + 1)}]

NoFormData ==
  [role |-> <<>>, industry |-> <<>>, experienceRange |-> <<>>,
   employeeRange |-> <<>>, interviews |-> Number(0)]

\* one call of validateInterviewForm with the argument at hand
CallValidateInterviewForm ==
  /\ ~validation.returned
  /\ validation' = validateInterviewForm(formData)
  /\ UNCHANGED formData
  /\ UNCHANGED jobVars
  /\ UNCHANGED ckVars
  /\ UNCHANGED formVars

\* ---------------------------------------------------------- specification
InitJob ==
  /\ nodeEnv \in {"production", "development"}
  /\ urlToken \in Tokens \cup {NoToken}
  /\ sessionId = urlToken
  /\ hydrated = FALSE
  /\ hasError = FALSE
  /\ inst = 0
  /\ jobId = NULL
  /\ keyRef = [i \in Instances |-> NULL]
  /\ pollArmed = FALSE
  /\ interviewing = FALSE
  /\ interviews = <<>>
  /\ toasts = <<>>
  /\ FETCH = {}
  /\ inflight = {}
  /\ cacheError = {}
  /\ retryTimers = {}
  /\ startCalls = [t \in Tokens |-> 0]
  /\ startSerial = 0
  /\ statusCalls = 0
  /\ loads = 1
  /\ step = Step("Init", 0, NULL, "none", Absent)
  /\ ended = {}
  /\ startFailed = {}
  /\ pageBase = 0

InitFormIdle ==
  /\ exports = {}
  /\ exCalls = 0
  /\ urls = <<>>
  /\ sliderValue = DEFAULT_INTERVIEW_COUNT
  /\ ckPending = NoCheckout
  /\ away = FALSE

InitCheckoutIdle ==
  /\ stripeEnv = [secretKey |-> TRUE, price |-> TRUE]
  /\ ckRequest = NoRequest
  /\ ckResponse = NoResponse
  /\ sessions = <<>>

InitValidateIdle ==
  /\ formData = NoFormData
  /\ validation = NoValidation

Init == InitJob /\ InitCheckoutIdle /\ InitFormIdle /\ InitValidateIdle

NextJob ==
  \/ \E t \in Tokens \cup {NoToken} : Navigate(t)
  \/ handleReload
  \/ Hydrate
  \/ getDerivedStateFromError
  \/ handleRetry
  \/ \E r \in inflight, resp \in StartResponses : StartSettles(r, resp)
  \/ \E r \in inflight, resp \in StatusResponses : StatusSettles(r, resp)
  \/ PollTick
  \/ Focus
  \/ Reconnect
  \/ \E key \in retryTimers : ErrorRetry(key)
  \/ \E key \in FETCH : DedupeExpire(key)

Next == NextJob /\ UNCHANGED <<ckVars, valVars>> /\ UNCHANGED formVars

Spec == Init /\ [][Next]_vars

\* The checkout route on its own: a deployment with any of the two
\* environment variables set or missing, serving arbitrary requests.
InitCheckout ==
  /\ nodeEnv = "production"
  /\ urlToken = NoToken
  /\ sessionId = NoToken
  /\ hydrated = FALSE
  /\ hasError = FALSE
  /\ inst = 0
  /\ jobId = NULL
  /\ keyRef = [i \in Instances |-> NULL]
  /\ pollArmed = FALSE
  /\ interviewing = FALSE
  /\ interviews = <<>>
  /\ toasts = <<>>
  /\ FETCH = {}
  /\ inflight = {}
  /\ cacheError = {}
  /\ retryTimers = {}
  /\ startCalls = [t \in Tokens |-> 0]
  /\ startSerial = 0
  /\ statusCalls = 0
  /\ loads = 1
  /\ step = Step("Init", 0, NULL, "none", Absent)
  /\ ended = {}
  /\ startFailed = {}
  /\ pageBase = 0
  /\ stripeEnv \in [secretKey : BOOLEAN, price : BOOLEAN]
  /\ ckRequest = NoRequest
  /\ ckResponse = NoResponse
  /\ sessions = <<>>
  /\ InitFormIdle
  /\ InitValidateIdle

NextCheckout ==
  /\ \E req \in CheckoutRequests, stripeOk \in BOOLEAN : POST(req, stripeOk)
  /\ UNCHANGED jobVars
  /\ UNCHANGED formVars

SpecCheckout == InitCheckout /\ [][NextCheckout]_vars

\* The page with its Download menu, the context menus of the table and the
\* earlier export helper: the page loads with or without a payment-return
\* token, and the job backend leaves the start-job request unanswered.
NextForm ==
  \/ Hydrate /\ UNCHANGED <<ckVars, valVars>> /\ UNCHANGED formVars
  \/ getDerivedStateFromError /\ UNCHANGED <<ckVars, valVars>>
     /\ UNCHANGED formVars
  \/ \E m \in EXPORT_MENU : InterviewForm_handleExport(m)
  \/ \E m \in EXPORT_MENU, k \in 1..MaxRecords :
       InterviewTable_handleExport(m, k)
  \/ \E target \in {"tables", "other"}, format \in {"csv", "json"},
        list \in {<<>>, Rows(<<"i1">>)}, newTab \in BOOLEAN :
       handleExport(target, format, list, newTab)
  \/ \E r \in exports, how \in {"answered", "gateway", "failed"},
        other \in OtherResponses : ExportSettles(r, how, other)
  \/ \E k \in 1..Len(urls) : RevokeTimer(k)

SpecForm == Init /\ [][NextForm]_vars

\* The page with its form, the slider and the checkout route behind it.
NextPay ==
  \/ ~away /\ Hydrate /\ UNCHANGED <<ckVars, valVars>> /\ UNCHANGED formVars
  \/ ~away /\ getDerivedStateFromError /\ UNCHANGED <<ckVars, valVars>>
     /\ UNCHANGED formVars
  \/ \E position \in SliderPositions : handleSliderChange(Slider(position))
  \/ handleSubmit
  \/ \E loaded \in StripeLoads : handleCheckout(loaded)
  \/ \E reached \in BOOLEAN, stripeOk \in BOOLEAN, redirects \in BOOLEAN :
       CheckoutSettles(reached, stripeOk, redirects)

SpecPay == Init /\ [][NextPay]_vars

\* what a step of the job controller leaves alone
OthersIdle == UNCHANGED <<ckVars, valVars>> /\ UNCHANGED formVars

\* The way from the form to the job: the user arrives at the bare origin,
\* pays or cancels at the payment page, and the provider sends the browser
\* to success_url (its placeholder replaced by the id of the session) or to
\* cancel_url.  The id of the k-th session is k.
SessionToken(url, id) ==
  IF Len(url) > 1 /\ url[Len(url)] = "?session_id=" THEN id ELSE NoToken

PaymentReturn(paid) ==
  /\ away /\ sessions # <<>>
  /\ Len(sessions) \in Tokens
  /\ LET s == sessions[Len(sessions)]
     IN IF paid
        THEN PageLoad(SessionToken(s.success_url, Len(sessions)),
                      "PaymentSuccess")
        ELSE PageLoad(SessionToken(s.cancel_url, Len(sessions)),
                      "PaymentCancel")
  /\ away' = FALSE
  /\ sliderValue' = DEFAULT_INTERVIEW_COUNT
  /\ ckPending' = NoCheckout
  /\ UNCHANGED <<exports, exCalls, urls>>
  /\ UNCHANGED <<ckVars, valVars>>

InitReturn == Init /\ urlToken = NoToken

NextReturn ==
  \/ ~away /\ Hydrate /\ OthersIdle
  \/ ~away /\ getDerivedStateFromError /\ OthersIdle
  \/ ~away /\ handleRetry /\ OthersIdle
  \/ ~away /\ handleReload /\ OthersIdle
  \/ handleSubmit
  \/ \E loaded \in StripeLoads : handleCheckout(loaded)
  \/ \E reached \in BOOLEAN, stripeOk \in BOOLEAN, redirects \in BOOLEAN :
       CheckoutSettles(reached, stripeOk, redirects)
  \/ \E paid \in BOOLEAN : PaymentReturn(paid)
  \/ /\ ~away
     /\ \E r \in inflight, resp \in StartResponses : StartSettles(r, resp)
     /\ OthersIdle
  \/ /\ ~away
     /\ \E r \in inflight, resp \in StatusResponses : StatusSettles(r, resp)
     /\ OthersIdle
  \/ ~away /\ PollTick /\ OthersIdle
  \/ ~away /\ Focus /\ OthersIdle
  \/ ~away /\ Reconnect /\ OthersIdle
  \/ ~away /\ (\E key \in retryTimers : ErrorRetry(key)) /\ OthersIdle
  \/ ~away /\ (\E key \in FETCH : DedupeExpire(key)) /\ OthersIdle

SpecReturn == InitReturn /\ [][NextReturn]_vars

\* validateInterviewForm on its own, called once with any argument.
InitValidate ==
  /\ InitJob /\ nodeEnv = "production" /\ urlToken = NoToken
  /\ InitCheckoutIdle
  /\ InitFormIdle
  /\ formData \in FormInputs
  /\ validation = NoValidation

NextValidate == CallValidateInterviewForm

SpecValidate == InitValidate /\ [][NextValidate]_vars

\* The tables route on its own, serving arbitrary requests.
TablesRequests == [table : TableNames, format : FormatParams, body : Bodies]

InitTables == Init /\ nodeEnv = "production" /\ urlToken = NoToken

NextTables == \E req \in TablesRequests : TablesRequest(req)

SpecTables == InitTables /\ [][NextTables]_vars

\* ------------------------------------------------------------------ claims
LastToast == toasts[Len(toasts)]

\* the jobId state of instance i; a torn-down instance holds none
JobIdOf(i) == IF Mounted /\ inst = i THEN jobId ELSE NULL

\* the jobId state of the instance whose call the last step handled
HandlerJobId == JobIdOf(step.inst)

\* the requests a step sends
Sent == inflight' \ inflight

\* C1: for every payment-return token the start-job call is issued at most
\* once, whatever renders, remounts, focus and reconnect events, error
\* retries or repeated arrivals with the same token take place.
C1_StartOncePerToken == \A t \in Tokens : startCalls[t] <= 1

\* C2: handling completed(data = D) leaves interviews = D (the empty list
\* when the response carries no data) and interviewing = FALSE, clears the
\* jobId of the instance that polled, and emits exactly one notification,
\* the success one; handling a pending response emits nothing and changes
\* none of these.
C2_Completed ==
  [][/\ (step'.name = "StatusSettles" /\ step'.outcome = "completed") =>
          /\ interviews' = (IF step'.hasData THEN step'.data ELSE <<>>)
          /\ interviewing' = FALSE
          /\ HandlerJobId' = NULL
          /\ toasts' = Append(toasts, SuccessToast)
     /\ (step'.name = "StatusSettles" /\ step'.outcome = "pending") =>
          UNCHANGED <<interviews, interviewing, jobId, toasts>>]_vars

C2_Witness ==
  /\ step.name = "StatusSettles" /\ step.outcome = "completed"
  /\ step.hasData /\ step.data = <<"i1", "i2">>
  /\ interviews = <<"i1", "i2">>
  /\ statusCalls = 3 /\ loads = 1 /\ startSerial = 1
  /\ ~interviewing /\ jobId = NULL
  /\ toasts = <<SuccessToast>>


\* C3: handling failed(error = m) leaves interviewing = FALSE, clears the
\* jobId of the instance that polled, leaves interviews as it was and emits
\* exactly one notification, the error one with description m; the steps of
\* the job before it (the start call, its answer, pending responses) leave
\* interviews as it was too.
C3_Failed ==
  [][/\ (step'.name = "StatusSettles" /\ step'.outcome = "failed") =>
          /\ interviewing' = FALSE
          /\ HandlerJobId' = NULL
          /\ interviews' = interviews
          /\ toasts' = Append(toasts, ErrorToast(step'.bodyMsg))
     /\ step'.outcome \in {"start-issued", "returned", "pending",
                           "status-issued", "joined"} =>
          interviews' = interviews]_vars

C3_Witness ==
  /\ step.name = "StatusSettles" /\ step.outcome = "failed"
  /\ step.bodyMsg = "quota exceeded"
  /\ statusCalls = 2 /\ loads = 1 /\ startSerial = 1
  /\ ~interviewing /\ jobId = NULL /\ interviews = <<>>
  /\ toasts = <<ErrorToast("quota exceeded")>>

Fallback(name) ==
  IF name = "StartSettles" THEN StartFallback ELSE StatusFallback

\* the message C4 as stated expects: the server's, else the fallback text
ClaimedMessage(st) ==
  IF st.net = "notok" /\ st.parses /\ ~Falsy(st.bodyMsg) THEN st.bodyMsg
  ELSE Fallback(st.name)

\* the message of the amended C4
ExpectedMessage(st) ==
  IF st.net = "fail" THEN TransportMsg
  ELSE IF ~st.parses THEN ParseMsg
  ELSE IF Falsy(st.bodyMsg) THEN Fallback(st.name)
  ELSE st.bodyMsg

C5_InterviewingWhileJobOpen ==
  interviewing <=> (startSerial > pageBase /\ startSerial \notin ended)


OneOutstandingPerJob ==
  \A r1, r2 \in inflight :
    (r1.hook = "status" /\ r2.hook = "status" /\ r1.arg = r2.arg) => r1 = r2

\* C6: once a terminal status or a status error has been handled for a job,
\* jobId is not that job, no status request for it is outstanding and none
\* is sent again; a status request is sent only for the job jobId holds, and
\* while a mounted table holds a job a poll is outstanding or scheduled.
C6_PollingStops ==
  /\ [](\A j \in ended :
          /\ jobId # j
          /\ ~\E r \in inflight : r.hook = "status" /\ r.arg = j)
  /\ []((Mounted /\ jobId # NULL) =>
          (pollArmed \/ \E r \in inflight : r.hook = "status" /\ r.arg = jobId))
  /\ [][\A r \in Sent : r.hook = "status" =>
          (r.arg \notin ended /\ r.arg = jobId')]_vars

C6_Witness ==
  /\ Mounted /\ startSerial = 1 /\ statusCalls >= 2 /\ 1 \in ended
  /\ jobId = NULL /\ pollArmed
  /\ StatusKey(1) \notin FETCH /\ inflight = {}
  /\ step.name = "DedupeExpire"

\* C7: nothing is retried automatically: outside a mount of the table, no
\* start-job call is sent for a token whose start call has failed and no
\* status call is sent for a job whose status call has failed.
C7_NoAutomaticRetry ==
  [][step'.name \notin {"Hydrate", "handleRetry"} =>
       \A r \in Sent :
         /\ r.hook = "start" => r.arg \notin startFailed
         /\ r.hook = "status" => r.arg \notin cacheError]_vars

\* C8 (as stated): a status request is sent only when jobId is stored or on
\* the interval tick, and never two for one job are outstanding together.
C8_PollsOnlyOnStoreOrTick ==
  /\ []OneOutstandingPerJob
  /\ [][\A r \in Sent : r.hook = "status" =>
          step'.name \in {"StartSettles", "PollTick"}]_vars

\* C8 (amended): the first status request is sent in the step that stores
\* jobId, every later one on the interval tick or on a window focus or
\* network reconnect event, and never two for one job are outstanding
\* together.
C8_PollsSequential ==
  /\ []OneOutstandingPerJob
  /\ [][/\ \A r \in Sent : r.hook = "status" =>
             step'.name \in {"StartSettles", "PollTick", "Focus", "Reconnect"}
        /\ (step'.name = "StartSettles" /\ jobId' \notin {NULL, jobId}) =>
             \E r \in Sent : r.hook = "status" /\ r.arg = jobId']_vars

C8_Witness ==
  /\ step.name = "PollTick" /\ step.outcome = "joined"
  /\ statusCalls = 2
  /\ \E r \in inflight : r.hook = "status" /\ r.arg = jobId /\ r.id = 2

\* C9: once the table is torn down, no status request is sent, and the
\* answer to a call of a torn-down instance changes none of interviewing,
\* interviews and jobId and emits no notification.
C9_NoEffectAfterTeardown ==
  [][/\ ~Mounted' => ~\E r \in Sent : r.hook = "status"
     /\ (/\ step'.name \in {"StartSettles", "StatusSettles"}
         /\ ~(Mounted /\ inst = step'.inst)) =>
           UNCHANGED <<interviewing, interviews, jobId, toasts>>]_vars


\* C10: a checkout request whose interviews count lies outside [5,20] is
\* answered with an error and creates no payment session.
C10_RejectsCountOutside5to20 ==
  (/\ ckRequest.parses /\ ckRequest.hasInterviews
   /\ (\/ ckRequest.interviews < MIN_INTERVIEW_COUNT
       \/ ckRequest.interviews > MAX_INTERVIEW_COUNT))
    => ckResponse.status # 200

\* ---------------------------------------------------------------------------
\* C11: for every format value (txt, csv, xlsx, json, html or absent), an
\* export request whose interviews list is empty is answered with a
\* validation error, a 4xx status with a JSON body {error}, and no payload.
C11_EmptyListRejected ==
  (/\ step.name = "TablesPOST"
   /\ step.request.body = ExportBody(<<>>)
   /\ step.request.format \in EXPORT_FORMATS \cup {Absent})
    => /\ step.response.status \in 400..499
       /\ step.response.contentType = "application/json"
       /\ step.response.error # Absent
       /\ step.response.encoding = Absent
       /\ step.response.rows = <<>>
       /\ step.response.text = <<>>

\* the route rejects an empty list sent to the interviews table as csv
C11_Witness ==
  /\ step.name = "TablesPOST"
  /\ step.request.table = "interviews"
  /\ step.request.format = "csv"
  /\ step.request.body = ExportBody(<<>>)
  /\ step.response.status = 400
  /\ step.response.error = "At least one interview is required for export"

\* ---------------------------------------------------------------------------
\* C12: an export request with no format parameter and a non-empty record
\* list for a recognized table succeeds and is rendered as HTML: status 200
\* with Content-Type text/html.
C12_NoFormatIsHtml ==
  (/\ step.name = "TablesPOST"
   /\ step.request.format = Absent
   /\ step.request.table \in VALID_TABLES
   /\ step.request.body.kind = "object"
   /\ step.request.body.field = "list"
   /\ Len(step.request.body.items) > 0)
    => /\ step.response.status = 200
       /\ step.response.contentType = "text/html"
       /\ step.response.encoding = "html"
       /\ step.response.rows = step.request.body.items
       /\ step.response.error = Absent

\* two records are posted to the interviews table without a format
C12_Witness ==
  /\ step.name = "TablesPOST"
  /\ step.request.format = Absent
  /\ step.request.table = "interviews"
  /\ step.request.body.field = "list"
  /\ Len(step.request.body.items) = MaxRecords
  /\ step.response.contentType = "text/html"

\* ---------------------------------------------------------------------------
\* C13: every validation failure at the export boundary (an unknown table
\* name, a format value that is present but not one of txt/csv/xlsx/json/
\* html, a non-list interviews field, a missing or malformed body) yields a
\* 4xx response with a JSON {error} body and never a rendered payload; an
\* unrecognized format is an error and is not defaulted to HTML.
C13_ValidationFailuresAre4xx ==
  LET req == step.request
      failure ==
        \/ req.table \notin VALID_TABLES
        \/ req.format # Absent /\ req.format \notin EXPORT_FORMATS
        \/ req.body.kind \in {"unparseable", "null", "scalar", "list"}
        \/ req.body.kind = "object" /\ req.body.field # "list"
  IN (step.name = "TablesPOST" /\ failure)
       => /\ step.response.status \in 400..499
          /\ step.response.contentType = "application/json"
          /\ step.response.error # Absent
          /\ step.response.encoding = Absent

\* ---------------------------------------------------------------------------
\* C14: round trip: for every non-empty list of N Interview records,
\* exporting with format=json and parsing the response body yields a list of
\* N records equal field for field, and in the same order, to the input.
C14_JsonRoundTrip ==
  (/\ step.name = "TablesPOST"
   /\ step.request.table \in VALID_TABLES
   /\ step.request.format = "json"
   /\ step.request.body.kind = "object"
   /\ step.request.body.field = "list"
   /\ Len(step.request.body.items) > 0)
    => /\ step.response.status = 200
       /\ JSONparse(step.response.text).ok
       /\ Len(JSONparse(step.response.text).value)
            = Len(step.request.body.items)
       /\ JSONparse(step.response.text).value = step.request.body.items

\* two different records whose texts hold a quote and a backslash are
\* exported as JSON
C14_Witness ==
  /\ step.name = "TablesPOST"
  /\ step.request.format = "json"
  /\ step.response.status = 200
  /\ Len(step.request.body.items) = MaxRecords
  /\ step.request.body.items[1] # step.request.body.items[2]
  /\ step.request.body.items[1].role = <<"P", DQ>>
  /\ step.request.body.items[2].question_one = <<BS>>
  /\ JSONparse(step.response.text).value = step.request.body.items

\* ---------------------------------------------------------------------------
\* C15: for every recognized format f and non-empty record list, a
\* successful export has status 200 and the Content-Type mapped to f (csv:
\* text/csv, txt: text/plain, xlsx: application/vnd.ms-excel, json:
\* application/json, html: text/html); txt/csv/xlsx carry Content-Disposition
\* attachment with filename "Interviews.<f>", json/html carry none.
C15_ContentTypeAndDisposition ==
  LET req == step.request
      resp == step.response
      f == req.format
  IN (/\ step.name = "TablesPOST"
      /\ req.table \in VALID_TABLES
      /\ f \in {"csv", "txt", "xlsx", "json", "html"}
      /\ req.body.kind = "object"
      /\ req.body.field = "list"
      /\ Len(req.body.items) > 0)
       => /\ resp.status = 200
          /\ resp.encoding = f
          /\ resp.contentType =
               (CASE f = "csv" -> "text/csv"
                  [] f = "txt" -> "text/plain"
                  [] f = "xlsx" -> "application/vnd.ms-excel"
                  [] f = "json" -> "application/json"
                  [] f = "html" -> "text/html")
          /\ f \in {"txt", "csv", "xlsx"}
               => /\ resp.hasDisposition
                  /\ resp.disposition =
                       <<"attachment; ", "filename=", DQ,
                         "Interviews." \o f, DQ>>
          /\ f \in {"json", "html"} => ~resp.hasDisposition

\* one record is exported as xlsx and the answer names Interviews.xlsx
C15_Witness ==
  /\ step.name = "TablesPOST"
  /\ step.request.format = "xlsx"
  /\ Len(step.request.body.items) = 1
  /\ step.response.status = 200
  /\ step.response.hasDisposition
  /\ step.response.disposition = Attachment("Interviews.xlsx")

\* ---------------------------------------------------------------------------
\* C16: when the export boundary answers with an error status,
\* makeExportRequest fails with an error carrying that HTTP status and
\* returns no payload, so nothing is delivered: no object URL is created, no
\* download and no new tab is triggered.
C16_ErrorStatusNoDelivery ==
  [][(/\ step'.name = "ExportSettles"
      /\ step'.request.caller \in {"form", "table"}
      /\ step'.response.by # "none"
      /\ step'.response.status \notin 200..299)
       => /\ step'.outcome = "export-failed"
          /\ step'.message = "Export failed with status: "
                               \o ToString(step'.response.status)
          /\ step'.filename = <<>>
          /\ urls' = urls]_vars

\* an export from the table's context menu was answered 502: the toast
\* carries the status and no object URL exists
C16_Witness ==
  /\ step.name = "ExportSettles"
  /\ step.request.caller = "table"
  /\ step.response.status = 502
  /\ step.outcome = "export-failed"
  /\ urls = <<>>
  /\ toasts # <<>>
  /\ toasts[Len(toasts)] = ExportErrorToast("Export failed with status: 502")

C18_ObjectUrlLifecycle ==
  \A k \in 1..Len(urls) :
    LET u == urls[k]
    IN /\ u.used
       /\ u.revoked <= 1
       /\ u.use = "download" => u.revoked = 1 /\ u.sameStep
       /\ u.use = "tab" => /\ ~u.sameStep
                           /\ u.revoked = 0 <=> u.timer

\* ---------------------------------------------------------------------------
\* C19: when checkout initiation fails at any step (payment client not
\* initialised, form missing, request unreachable, non-success status or
\* redirect error), handleCheckout logs and swallows the error: nothing
\* escapes to the error boundary, the page is not redirected to the payment
\* page, no notification is emitted, and interviews and interviewing are
\* left as they were; a redirect happens only after a 200 answer.
C19_CheckoutFailureSwallowed ==
  [][/\ (step'.name = "handleCheckout" /\ step'.outcome = "checkout-failed")
          => /\ interviews' = interviews
             /\ interviewing' = interviewing
             /\ toasts' = toasts
             /\ hasError' = hasError
             /\ away' = FALSE
             /\ ckPending' = NoCheckout
     /\ (step'.name = "handleCheckout" /\ step'.outcome = "redirected")
          => ckResponse'.status = 200]_vars

\* the checkout route answered 500 for a checkout of 7 interviews, made
\* while the page shows interviews: the page stays, with no toast
C19_Witness ==
  /\ step.name = "handleCheckout"
  /\ step.outcome = "checkout-failed"
  /\ step.message = "Checkout request failed with status: 500"
  /\ ckRequest.interviews = 7
  /\ interviews # <<>>
  /\ toasts = <<>>
  /\ ~away

\* ---------------------------------------------------------------------------
\* C20: ApplicationState has a single mutator per field: within one page
\* load, interviews changes only in the step where the job controller
\* handles a completed status and in no other step (start, pending poll,
\* failure, export, checkout); interviewing changes only in steps of the job
\* controller or of the checkout initiator.
C20_SingleMutator ==
  [][step'.name \notin {"Navigate", "handleReload"}
       => /\ interviews' # interviews
               => step'.name = "StatusSettles" /\ step'.outcome = "completed"
          /\ interviewing' # interviewing
               => step'.name \in {"Hydrate", "handleRetry", "ErrorRetry",
                                  "StartSettles", "StatusSettles",
                                  "handleSubmit", "handleCheckout"}]_vars

\* ---------------------------------------------------------------------------
\* C21: every failure of an export, whether started from the table's context
\* menu or from the form's Download menu, is caught and surfaced to the user
\* through exactly one notification carrying the error message.
C21_ExportFailureNotified ==
  [][(/\ step'.name = "ExportSettles"
      /\ step'.outcome = "export-failed"
      /\ step'.request.caller \in {"form", "table"})
       => toasts' = Append(toasts, ExportErrorToast(step'.message))]_vars

\* ---------------------------------------------------------------------------
\* C22: every export request a client function of this repository sends
\* (makeExportRequest and handleExport) carries the record list under the
\* interviews key of a JSON object, so a request with a non-empty list, the
\* interviews table and a recognized format is accepted by the route's body
\* validation and answered with a payload.
C22_BodyUnderInterviewsKey ==
  LET req == step.request
  IN /\ step.name = "handleExport"
          => req.body.kind = "object" /\ req.body.field = "list"
     /\ (/\ step.name = "ExportSettles"
         /\ step.response.by = "route"
         /\ req.table \in VALID_TABLES
         /\ req.format \in EXPORT_FORMATS
         /\ Len(req.body.items) > 0)
          => /\ step.response.status = 200
             /\ step.response.encoding = req.format
             /\ step.outcome = "exported"

\* ---------------------------------------------------------------------------
\* The job lifecycle of one production page that was opened with a
\* payment-return token and stays open: no further page load and no render
\* error.  The job producer reports a terminal status at the latest for the
\* last status request the bound allows.
ProducerReports(resp) ==
  (resp.net = "ok" /\ resp.parses /\ resp.status = "pending")
    => statusCalls < MaxStatusCalls

InitLive == Init /\ nodeEnv = "production" /\ urlToken # NoToken

LiveStartSettles ==
  /\ \E r \in inflight, resp \in StartResponses : StartSettles(r, resp)
  /\ OthersIdle

LiveStatusSettles ==
  /\ \E r \in inflight, resp \in StatusResponses :
       ProducerReports(resp) /\ StatusSettles(r, resp)
  /\ OthersIdle

LiveErrorRetry ==
  /\ \E key \in retryTimers : ErrorRetry(key)
  /\ OthersIdle

LiveDedupeExpire ==
  /\ \E key \in FETCH : DedupeExpire(key)
  /\ OthersIdle

NextLive ==
  \/ Hydrate /\ OthersIdle
  \/ LiveStartSettles
  \/ LiveStatusSettles
  \/ PollTick /\ OthersIdle
  \/ Focus /\ OthersIdle
  \/ Reconnect /\ OthersIdle
  \/ LiveErrorRetry
  \/ LiveDedupeExpire

\* every issued request gets a response and every timer fires
FairLive ==
  /\ WF_vars(Hydrate /\ OthersIdle)
  /\ WF_vars(LiveStartSettles)
  /\ WF_vars(LiveStatusSettles)
  /\ WF_vars(PollTick /\ OthersIdle)
  /\ WF_vars(LiveErrorRetry)
  /\ WF_vars(LiveDedupeExpire)

SpecLive == InitLive /\ [][NextLive]_vars /\ FairLive

C25_CountWithinSliderRange ==
  /\ [](/\ sliderValue \in 5..20
        /\ ckPending.phase # "idle" => ckPending.interviews \in 5..20
        /\ ckRequest # NoRequest
             => /\ ckRequest.parses /\ ckRequest.hasInterviews
                /\ ckRequest.interviews \in 5..20)
  /\ [][sliderValue' # sliderValue
          => step'.name = "handleSliderChange" /\ ~interviewing]_vars

\* the slider was moved to its maximum and the checkout request carrying 20
\* was answered
C25_Witness ==
  /\ sliderValue = 20
  /\ ckRequest # NoRequest
  /\ ckRequest.interviews = 20
  /\ ckResponse.status = 200
  /\ step.name = "handleCheckout"

\* ---------------------------------------------------------------------------
\* C26: the start fetcher removes session_id from the browser URL before it
\* issues the start-job request: in every state where a start-job request
\* of this page for a token is outstanding or has been issued, the address
\* bar does not carry the token, and a reload of the page does not present
\* it again.
C26_UrlCleanedBeforeStart ==
  /\ [](/\ \A r \in inflight : r.hook = "start" => urlToken # r.arg
        /\ startSerial > pageBase => urlToken = NoToken)
  /\ [][(step'.name = "handleReload" /\ startSerial > pageBase)
          => sessionId' = NoToken /\ urlToken' = NoToken]_vars

\* the page was reloaded after its start-job request had been issued, and
\* the reloaded page has no token
C26_Witness ==
  /\ step.name = "handleReload"
  /\ startSerial = 1
  /\ loads = 2
  /\ sessionId = NoToken
  /\ urlToken = NoToken

\* ---------------------------------------------------------------------------
\* C27: whenever interviewing is true, either a start-job request is
\* outstanding or jobId is non-null with a status request outstanding or
\* scheduled; every successful start-job response, whatever its body, leads
\* to a stored jobId and to polling, so the tab cannot rest with
\* interviewing = TRUE and nothing in flight.
C27_InterviewingHasWorkInFlight ==
  /\ [](interviewing
          => \/ \E r \in inflight : r.hook = "start"
             \/ /\ jobId # NULL
                /\ \/ pollArmed
                   \/ \E r \in inflight : r.hook = "status" /\ r.arg = jobId)
  /\ [][(/\ step'.name = "StartSettles" /\ step'.outcome = "returned"
         /\ Mounted /\ inst = step'.inst)
          => /\ jobId' # NULL
             /\ \E r \in inflight' : r.hook = "status" /\ r.arg = jobId']_vars

\* ---------------------------------------------------------------------------
\* C28: for every checkout request the route accepts, the payment session is
\* created with a line-item quantity equal to the interviews count of the
\* request, with 5 used when the count is absent; a request without
\* returnUrl or with missing payment configuration creates no session and is
\* answered with status 500 and {error: message}.
C28_QuantityIsRequestedCount ==
  [][/\ ckResponse'.status = 200 =>
          /\ Len(sessions') = Len(sessions) + 1
          /\ sessions'[Len(sessions')].quantity =
               (IF ckRequest'.hasInterviews THEN ckRequest'.interviews ELSE 5)
     /\ (\/ ckRequest'.parses /\ ~ckRequest'.hasReturnUrl
         \/ ~stripeEnv.secretKey
         \/ ~stripeEnv.price) =>
          /\ sessions' = sessions
          /\ ckResponse'.status = 500
          /\ ckResponse'.error # Absent]_vars

\* ---------------------------------------------------------------------------
\* C29: a job can start only after a successful payment redirect: the
\* checkout route puts the session token only in success_url and leaves
\* cancel_url as the bare return URL, and Home mounts InterviewTable only
\* when session_id is present, so a cancelled-payment return never issues a
\* start-job call and leaves interviewing false.
C29_StartOnlyAfterPaidReturn ==
  /\ [](\A k \in 1..Len(sessions) :
          /\ SessionToken(sessions[k].success_url, k) = k
          /\ SessionToken(sessions[k].cancel_url, k) = NoToken)
  /\ [](sessionId = NoToken =>
          /\ ~Mounted
          /\ ~interviewing
          /\ startSerial = pageBase
          /\ ~\E r \in inflight : r.hook = "start")
  /\ [][/\ step'.name = "PaymentCancel" => sessionId' = NoToken
        /\ startSerial' > startSerial =>
             /\ sessionId \in 1..Len(sessions)
             /\ Mounted']_vars

C29_Witness ==
  /\ step.name = "Hydrate"
  /\ loads = 2
  /\ sessions # <<>>
  /\ sessionId = NoToken
  /\ ~interviewing
  /\ startSerial = 0

\* ---------------------------------------------------------------------------
\* C30: validateInterviewForm returns isValid = true exactly when its errors
\* map is empty, which holds exactly when role and industry are non-blank
\* after trimming, experienceRange and employeeRange each match
\* digits-hyphen-digits after trimming, and 5 <= interviews <= 20; each
\* failing field contributes exactly one entry under its own key.
NonBlank(s) == \E k \in 1..Len(s) : s[k] # " "

\* s without the white space around it
Core(s) ==
  LET inked == {k \in 1..Len(s) : s[k] # " "}
  IN IF inked = {} THEN <<>>
     ELSE SubSeq(s, CHOOSE k \in inked : \A m \in inked : k <= m,
                    CHOOSE k \in inked : \A m \in inked : m <= k)

DigitsHyphenDigits(s) ==
  LET c == Core(s)
  IN \E b \in 2..Len(c) - 1 :
       /\ c[b] = "-"
       /\ \A k \in (1..Len(c)) \ {b} : c[k] \in Digits

FailingFields(data) ==
  {f \in {"role", "industry"} : ~NonBlank(data[f])}
  \cup {f \in {"experienceRange", "employeeRange"} :
          ~DigitsHyphenDigits(data[f])}
  \cup {f \in {"interviews"} :
          ~(/\ ~data.interviews.isNaN
            /\ 5 <= data.interviews.value
            /\ data.interviews.value <= 20)}

C30_ValidExactlyWhenNoFieldFails ==
  validation.returned =>
    /\ validation.isValid <=> DOMAIN validation.errors = {}
    /\ DOMAIN validation.errors = FailingFields(formData)

====
